---- MODULE Spec2Model ----
(***************************************************************************)
(* Model of scripts/generate_cq_results.py: one batch run of main() over   *)
(* a cost dataset, an incident dataset and an objective dataset.           *)
(*                                                                         *)
(* Conventions of the model:                                               *)
(*  - a CSV row is a record of strings, a dataset a sequence of rows;      *)
(*  - a Python float is an exact rational <<n, d>> in lowest terms with    *)
(*    d > 0 (IEEE rounding, inf and nan are not modelled);                 *)
(*  - a Python dict is a sequence of <<key, value>> pairs with distinct    *)
(*    keys, in insertion order;                                            *)
(*  - a number formatted with f"{x:.2f}" / f"{x:.4f}" is the integer count *)
(*    of hundredths / ten-thousandths the decimal text denotes.            *)
(***************************************************************************)
EXTENDS Integers, Sequences, FiniteSets, TLC

\* ---------------------------------------------------------------- bounds
MaxCostRows == 2
MaxIncidentRows == 2

\* ------------------------------------------------------- program constants
TRANSFER_MODES == {"Transferred", "Externalized"}

COST_TYPE_BUCKET ==
    [ MicroarchitecturalPerformanceCost |-> "w_perf",
      PhysicalResourceCost |-> "w_labor",
      EngineeringLaborCost |-> "w_labor",
      VerificationValidationCost |-> "w_labor",
      ToolchainInfrastructureCost |-> "w_labor",
      LifecycleOperationsCost |-> "w_ops",
      ComplianceAssuranceCost |-> "w_compliance",
      MarketContractualCost |-> "w_compliance",
      LiabilityRedressCost |-> "w_compliance",
      ReputationTrustCost |-> "w_compliance",
      OpportunityCost |-> "w_opportunity" ]

\* ------------------------------------------------------------ str helpers
\* str.strip() on the strings of the model: the padded ones lose their
\* leading and trailing blanks, every other string is returned unchanged.
Padded ==
    [ s \in {" ", " F1", "F2 ", " Transferred", " Internalized", " 10 ",
             " MicroarchitecturalPerformanceCost", " A"} |->
        CASE s = " " -> ""
          [] s = " F1" -> "F1"
          [] s = "F2 " -> "F2"
          [] s = " Transferred" -> "Transferred"
          [] s = " Internalized" -> "Internalized"
          [] s = " 10 " -> "10"
          [] s = " MicroarchitecturalPerformanceCost" -> "MicroarchitecturalPerformanceCost"
          [] s = " A" -> "A" ]

strip(s) == IF s \in DOMAIN Padded THEN Padded[s] ELSE s

\* Python's str ordering (by code point) on the stripped family and
\* cost-type names that occur as sort keys.
StrOrder ==
    << "", "EngineeringLaborCost", "F1", "F2", "F3",
       "LifecycleOperationsCost", "MicroarchitecturalPerformanceCost",
       "OpportunityCost", "UnlistedCost" >>

str_index(s) == CHOOSE i \in 1..Len(StrOrder) : StrOrder[i] = s

str_lt(a, b) == str_index(a) < str_index(b)

\* "percent_runtime" in unit
has_percent_runtime(unit) == unit \in {"percent_runtime", "mean_percent_runtime_overhead"}

\* ---------------------------------------------------------- float helpers
RECURSIVE Gcd(_, _)
Gcd(a, b) == IF b = 0 THEN a ELSE Gcd(b, a % b)

f_abs_int(x) == IF x < 0 THEN -x ELSE x

\* the float n/d, d # 0
Float(n, d) ==
    LET g == Gcd(f_abs_int(n), f_abs_int(d))
        s == IF d < 0 THEN -1 ELSE 1
    IN  << (s * n) \div g, (s * d) \div g >>

f_zero == << 0, 1 >>
f_one == << 1, 1 >>

f_add(x, y) == Float(x[1] * y[2] + y[1] * x[2], x[2] * y[2])
f_sub(x, y) == Float(x[1] * y[2] - y[1] * x[2], x[2] * y[2])
f_mul(x, y) == Float(x[1] * y[1], x[2] * y[2])
f_div(x, y) == Float(x[1] * y[2], x[2] * y[1])
f_neg(x) == << -x[1], x[2] >>
f_abs(x) == << f_abs_int(x[1]), x[2] >>
f_lt(x, y) == x[1] * y[2] < y[1] * x[2]
f_le(x, y) == x[1] * y[2] <= y[1] * x[2]
f_max(x, y) == IF f_lt(x, y) THEN y ELSE x
f_int(n) == << n, 1 >>

RECURSIVE f_sum(_)
f_sum(vals) == IF vals = <<>> THEN f_zero ELSE f_add(Head(vals), f_sum(Tail(vals)))

\* f"{x:.<places>f}": x rounded to a multiple of 1/scale (ties to even),
\* as the number of such units.
f_format(x, scale) ==
    LET num == x[1] * scale
        q == num \div x[2]
        r2 == 2 * (num % x[2])
    IN  IF r2 > x[2] \/ (r2 = x[2] /\ q % 2 = 1) THEN q + 1 ELSE q

\* float(text) of a formatted number
f_parse(units, scale) == Float(units, scale)

\* the numeric literals float() accepts, among the strings of the model,
\* with the float each denotes
Numerals ==
    [ s \in {"0", "1", "2", "4", "5", "10", "11", "20", "-1", "-5", "0.5"} |->
        CASE s = "0" -> << 0, 1 >>
          [] s = "1" -> << 1, 1 >>
          [] s = "2" -> << 2, 1 >>
          [] s = "4" -> << 4, 1 >>
          [] s = "5" -> << 5, 1 >>
          [] s = "10" -> << 10, 1 >>
          [] s = "11" -> << 11, 1 >>
          [] s = "20" -> << 20, 1 >>
          [] s = "-1" -> << -1, 1 >>
          [] s = "-5" -> << -5, 1 >>
          [] s = "0.5" -> << 1, 2 >> ]

as_float(x) ==
    LET s == strip(x)
    IN  IF s \in DOMAIN Numerals THEN Numerals[s] ELSE f_zero

\* ----------------------------------------------------------- dict helpers
dict_keys(d) == { d[i][1] : i \in 1..Len(d) }

dict_get(d, k, default) ==
    IF k \in dict_keys(d)
    THEN d[CHOOSE i \in 1..Len(d) : d[i][1] = k][2]
    ELSE default

dict_set(d, k, v) ==
    IF k \in dict_keys(d)
    THEN [ i \in 1..Len(d) |-> IF d[i][1] = k THEN << k, v >> ELSE d[i] ]
    ELSE Append(d, << k, v >>)

Front(s) == SubSeq(s, 1, Len(s) - 1)
Last(s) == s[Len(s)]

nonempty(row, keys) == \A i \in 1..Len(keys) : strip(row[keys[i]]) # ""

\* sorted(d.items(), key=lambda kv: (kv[1], kv[0])): a stable insertion sort
kv_key_le(a, b) == f_lt(a[2], b[2]) \/ (a[2] = b[2] /\ ~ str_lt(b[1], a[1]))

RECURSIVE kv_insert(_, _)
kv_insert(s, x) ==
    IF s = <<>> THEN << x >>
    ELSE IF kv_key_le(Head(s), x) THEN << Head(s) >> \o kv_insert(Tail(s), x)
    ELSE << x >> \o s

RECURSIVE sorted_items(_)
sorted_items(items) ==
    IF items = <<>> THEN <<>>
    ELSE kv_insert(sorted_items(Front(items)), Last(items))

\* ------------------------------------------------- ranking_for_microperf
microperf_selected_any_type(row) == has_percent_runtime(row.unit)

microperf_selected(row) ==
    /\ row.cost_type = "MicroarchitecturalPerformanceCost"
    /\ has_percent_runtime(row.unit)

microperf_value_all_grades(row, multiplier) == f_mul(as_float(row.magnitude), multiplier)

microperf_value(row, multiplier) ==
    IF row.evidence_grade \in {"E2", "E3"}
    THEN f_mul(as_float(row.magnitude), multiplier)
    ELSE as_float(row.magnitude)

RECURSIVE microperf_grouped(_, _)
microperf_grouped(cost_rows, multiplier) ==
    IF cost_rows = <<>> THEN <<>>
    ELSE LET grouped == microperf_grouped(Front(cost_rows), multiplier)
             row == Last(cost_rows)
             family == strip(row.mechanism_family)
         IN  IF ~ microperf_selected(row) THEN grouped
             ELSE IF family = "" THEN grouped
             ELSE dict_set(grouped, family,
                           Append(dict_get(grouped, family, <<>>),
                                  microperf_value(row, multiplier)))

mean_of(vals) == f_div(f_sum(vals), f_int(Len(vals)))

microperf_means(cost_rows, multiplier) ==
    LET grouped == microperf_grouped(cost_rows, multiplier)
    IN  [ i \in 1..Len(grouped) |-> << grouped[i][1], mean_of(grouped[i][2]) >> ]

ranking_for_microperf(cost_rows, multiplier) ==
    LET means == microperf_means(cost_rows, multiplier)
        ordered == sorted_items(means)
    IN  [ ranking |-> [ i \in 1..Len(ordered) |-> ordered[i][1] ],
          means |-> means ]

\* ----------------------------------------------------- generate_voi_rows
RECURSIVE incident_count_by_family(_)
incident_count_by_family(incident_rows) ==
    IF incident_rows = <<>> THEN <<>>
    ELSE LET counts == incident_count_by_family(Front(incident_rows))
             family == strip(Last(incident_rows).linked_family)
         IN  IF family # ""
             THEN dict_set(counts, family, dict_get(counts, family, 0) + 1)
             ELSE counts

voi_cell_key(row) == << strip(row.mechanism_family), strip(row.cost_type) >>

voi_cell_counts(counts, row) ==
    [ e2_rows |-> counts.e2_rows + (IF row.evidence_grade = "E2" THEN 1 ELSE 0),
      e3_rows |-> counts.e3_rows + (IF row.evidence_grade = "E3" THEN 1 ELSE 0),
      transfer_rows |-> counts.transfer_rows
                          + (IF row.bearing_mode \in TRANSFER_MODES THEN 1 ELSE 0) ]

RECURSIVE voi_by_cell(_)
voi_by_cell(cost_rows) ==
    IF cost_rows = <<>> THEN <<>>
    ELSE LET by_cell == voi_by_cell(Front(cost_rows))
             row == Last(cost_rows)
             key == voi_cell_key(row)
             zero == [ e2_rows |-> 0, e3_rows |-> 0, transfer_rows |-> 0 ]
         IN  IF key[1] = "" \/ key[2] = "" THEN by_cell
             ELSE dict_set(by_cell, key,
                           voi_cell_counts(dict_get(by_cell, key, zero), row))

voi_score_unweighted(counts, incidents) ==
    f_int(counts.e2_rows + counts.e3_rows + counts.transfer_rows + incidents)

voi_score(counts, incidents) ==
    f_add(f_add(f_mul(Float(1, 1), f_int(counts.e2_rows)),
                f_mul(Float(2, 1), f_int(counts.e3_rows))),
          f_add(f_mul(Float(12, 10), f_int(counts.transfer_rows)),
                f_mul(Float(8, 10), f_int(incidents))))

voi_scored(cost_rows, incident_rows) ==
    LET by_cell == voi_by_cell(cost_rows)
        incident_count == incident_count_by_family(incident_rows)
    IN  [ i \in 1..Len(by_cell) |->
            LET family == by_cell[i][1][1]
                counts == by_cell[i][2]
                incidents == dict_get(incident_count, family, 0)
            IN  [ mechanism_family |-> family,
                  cost_type |-> by_cell[i][1][2],
                  e2_rows |-> counts.e2_rows,
                  e3_rows |-> counts.e3_rows,
                  transfer_externalized_rows |-> counts.transfer_rows,
                  incident_link_rows |-> incidents,
                  voi_score |-> f_format(voi_score(counts, incidents), 100) ] ]

\* key=lambda r: (-float(r["voi_score"]), r["mechanism_family"], r["cost_type"])
voi_key_le_ascending(a, b) ==
    LET ka == f_parse(a.voi_score, 100)
        kb == f_parse(b.voi_score, 100)
    IN  \/ f_lt(ka, kb)
        \/ /\ ka = kb
           /\ \/ str_lt(a.mechanism_family, b.mechanism_family)
              \/ /\ a.mechanism_family = b.mechanism_family
                 /\ ~ str_lt(b.cost_type, a.cost_type)

voi_key_le(a, b) ==
    LET ka == f_neg(f_parse(a.voi_score, 100))
        kb == f_neg(f_parse(b.voi_score, 100))
    IN  \/ f_lt(ka, kb)
        \/ /\ ka = kb
           /\ \/ str_lt(a.mechanism_family, b.mechanism_family)
              \/ /\ a.mechanism_family = b.mechanism_family
                 /\ ~ str_lt(b.cost_type, a.cost_type)

RECURSIVE voi_insert(_, _)
voi_insert(s, x) ==
    IF s = <<>> THEN << x >>
    ELSE IF voi_key_le(Head(s), x) THEN << Head(s) >> \o voi_insert(Tail(s), x)
    ELSE << x >> \o s

RECURSIVE voi_sort(_)
voi_sort(scored) ==
    IF scored = <<>> THEN <<>>
    ELSE voi_insert(voi_sort(Front(scored)), Last(scored))

generate_voi_rows(cost_rows, incident_rows) ==
    LET scored == voi_sort(voi_scored(cost_rows, incident_rows))
    IN  [ i \in 1..Len(scored) |->
            [ priority_rank |-> i,
              mechanism_family |-> scored[i].mechanism_family,
              cost_type |-> scored[i].cost_type,
              e2_rows |-> scored[i].e2_rows,
              e3_rows |-> scored[i].e3_rows,
              transfer_externalized_rows |-> scored[i].transfer_externalized_rows,
              incident_link_rows |-> scored[i].incident_link_rows,
              voi_score |-> scored[i].voi_score ] ]

\* -------------------------------------------------- max_abs_by_cost_type
RECURSIVE max_abs_raw(_)
max_abs_raw(cost_rows) ==
    IF cost_rows = <<>> THEN <<>>
    ELSE LET by_type == max_abs_raw(Front(cost_rows))
             row == Last(cost_rows)
             cost_type == strip(row.cost_type)
             value == f_abs(as_float(row.magnitude))
         IN  IF cost_type = "" THEN by_type
             ELSE dict_set(by_type, cost_type,
                           f_max(dict_get(by_type, cost_type, f_zero), value))

max_abs_by_cost_type(cost_rows) ==
    LET by_type == max_abs_raw(cost_rows)
    IN  [ i \in 1..Len(by_type) |->
            IF f_le(by_type[i][2], f_zero)
            THEN << by_type[i][1], f_one >>
            ELSE by_type[i] ]

\* ------------------------------------- normalized_incident_loss_by_family
RECURSIVE incident_values_by_family(_)
incident_values_by_family(incident_rows) ==
    IF incident_rows = <<>> THEN <<>>
    ELSE LET values == incident_values_by_family(Front(incident_rows))
             row == Last(incident_rows)
             family == strip(row.linked_family)
         IN  IF family = "" THEN values
             ELSE dict_set(values, family,
                           Append(dict_get(values, family, <<>>),
                                  f_abs(as_float(row.loss_magnitude))))

RECURSIVE incident_max_loss(_)
incident_max_loss(incident_rows) ==
    IF incident_rows = <<>> THEN f_zero
    ELSE LET row == Last(incident_rows)
             rest == incident_max_loss(Front(incident_rows))
         IN  IF strip(row.linked_family) = "" THEN rest
             ELSE f_max(rest, f_abs(as_float(row.loss_magnitude)))

normalized_incident_loss_by_family(incident_rows) ==
    LET values == incident_values_by_family(incident_rows)
        raw_max == incident_max_loss(incident_rows)
        max_loss == IF f_le(raw_max, f_zero) THEN f_one ELSE raw_max
    IN  [ i \in 1..Len(values) |->
            << values[i][1], f_div(mean_of(values[i][2]), max_loss) >> ]

\* ---------------------------------------------------- objective_row_term
objective_extra_weight(row, objective) ==
    IF strip(row.bearing_mode) \in TRANSFER_MODES
    THEN as_float(objective.w_transfer_externalized)
    ELSE f_zero

objective_row_term(row, objective, max_by_type) ==
    LET cost_type == strip(row.cost_type)
        magnitude == f_abs(as_float(row.magnitude))
        denom == dict_get(max_by_type, cost_type, f_one)
        normalized == IF f_lt(f_zero, denom) THEN f_div(magnitude, denom) ELSE f_zero
        base_weight == IF cost_type \in DOMAIN COST_TYPE_BUCKET
                       THEN as_float(objective[COST_TYPE_BUCKET[cost_type]])
                       ELSE f_zero
    IN  f_mul(f_add(base_weight, objective_extra_weight(row, objective)), normalized)

\* ---------------------------------------- generate_objective_comparisons
RECURSIVE grouped_by_family(_)
grouped_by_family(cost_rows) ==
    IF cost_rows = <<>> THEN <<>>
    ELSE LET grouped == grouped_by_family(Front(cost_rows))
             row == Last(cost_rows)
             family == strip(row.mechanism_family)
         IN  IF family = "" THEN grouped
             ELSE dict_set(grouped, family, Append(dict_get(grouped, family, <<>>), row))

required_weight_fields ==
    << "w_perf", "w_labor", "w_ops", "w_compliance", "w_opportunity",
       "w_transfer_externalized", "w_incident_loss" >>

objective_complete(objective) ==
    /\ strip(objective.objective_id) # ""
    /\ strip(objective.objective_label) # ""
    /\ strip(objective.baseline_family) # ""
    /\ nonempty(objective, required_weight_fields)

objective_incident_component_flat(objective, normalized_incident, family) ==
    as_float(objective.w_incident_loss)

objective_incident_component(objective, normalized_incident, family) ==
    f_mul(as_float(objective.w_incident_loss), dict_get(normalized_incident, family, f_zero))

\* lines 213-221, with lines 180-187 computed by the caller
family_scores_of(grouped, max_by_type, normalized_incident, objective) ==
    [ i \in 1..Len(grouped) |->
        LET rows == grouped[i][2]
            terms == [ j \in 1..Len(rows) |->
                         objective_row_term(rows[j], objective, max_by_type) ]
            cost_component == f_div(f_sum(terms), f_int(Len(rows)))
        IN  << grouped[i][1],
               f_add(cost_component,
                     objective_incident_component(objective, normalized_incident,
                                                  grouped[i][1])) >> ]

family_scores(cost_rows, incident_rows, objective) ==
    family_scores_of(grouped_by_family(cost_rows), max_abs_by_cost_type(cost_rows),
                     normalized_incident_loss_by_family(incident_rows), objective)

objective_valid_baseline_only(objective, scores) ==
    /\ objective_complete(objective)
    /\ strip(objective.baseline_family) \in dict_keys(scores)

objective_valid(objective, scores) ==
    /\ objective_complete(objective)
    /\ strip(objective.baseline_family) \in dict_keys(scores)
    /\ Len(scores) >= 2

objective_delta(score, baseline_score) == f_format(f_sub(score, baseline_score), 10000)

\* lines 227-240
objective_rows_for(objective, scores) ==
    LET baseline_family == strip(objective.baseline_family)
        baseline_score == dict_get(scores, baseline_family, f_zero)
        ordered == sorted_items(scores)
    IN  [ rank \in 1..Len(ordered) |->
            [ objective_id |-> strip(objective.objective_id),
              objective_label |-> strip(objective.objective_label),
              baseline_family |-> baseline_family,
              mechanism_family |-> ordered[rank][1],
              objective_score |-> f_format(ordered[rank][2], 10000),
              delta_vs_baseline |-> objective_delta(ordered[rank][2], baseline_score),
              rank |-> rank ] ]

\* lines 203-240: the loop over the objectives
RECURSIVE objective_loop(_, _, _, _)
objective_loop(grouped, max_by_type, normalized_incident, objective_rows) ==
    IF objective_rows = <<>>
    THEN [ objective_comparisons |-> <<>>, objective_valid |-> 0 ]
    ELSE LET done == objective_loop(grouped, max_by_type, normalized_incident,
                                    Front(objective_rows))
             objective == Last(objective_rows)
             scores == family_scores_of(grouped, max_by_type, normalized_incident, objective)
         IN  IF objective_valid(objective, scores)
             THEN [ objective_comparisons |->
                        done.objective_comparisons \o objective_rows_for(objective, scores),
                    objective_valid |-> done.objective_valid + 1 ]
             ELSE done

generate_objective_comparisons(cost_rows, incident_rows, objective_rows) ==
    LET got == objective_loop(grouped_by_family(cost_rows), max_abs_by_cost_type(cost_rows),
                              normalized_incident_loss_by_family(incident_rows),
                              objective_rows)
    IN  [ objective_comparisons |-> got.objective_comparisons,
          objective_valid |-> got.objective_valid,
          objective_total |-> Len(objective_rows) ]

\* ------------------------------------- generate_shacl_equivalent_results
internalized_violation_no_presence_check(row) ==
    /\ strip(row.bearing_mode) = "Internalized"
    /\ strip(row.decision_maker) # strip(row.stakeholder)

internalized_violation(row) ==
    /\ strip(row.bearing_mode) = "Internalized"
    /\ strip(row.decision_maker) # ""
    /\ strip(row.stakeholder) # ""
    /\ strip(row.decision_maker) # strip(row.stakeholder)

transfer_violation(row) ==
    /\ strip(row.bearing_mode) \in TRANSFER_MODES
    /\ \/ strip(row.transfer_target) = ""
       \/ strip(row.transfer_target) = strip(row.decision_maker)

inferred_pairs_of(cost_rows) ==
    { << strip(cost_rows[i].mechanism_instance), strip(cost_rows[i].stakeholder) >> :
        i \in { j \in 1..Len(cost_rows) :
                  /\ strip(cost_rows[j].mechanism_instance) # ""
                  /\ strip(cost_rows[j].stakeholder) # "" } }

rule_status(violations) == IF violations = 0 THEN "pass" ELSE "fail"

generate_shacl_equivalent_results(cost_rows) ==
    LET internalized_violations ==
            Cardinality({ i \in 1..Len(cost_rows) : internalized_violation(cost_rows[i]) })
        transfer_violations ==
            Cardinality({ i \in 1..Len(cost_rows) : transfer_violation(cost_rows[i]) })
    IN  [ rows |-> << [ rule_id |-> "CQ7-R1",
                        violations |-> internalized_violations,
                        checked_rows |-> Len(cost_rows),
                        status |-> rule_status(internalized_violations) ],
                      [ rule_id |-> "CQ7-R2",
                        violations |-> transfer_violations,
                        checked_rows |-> Len(cost_rows),
                        status |-> rule_status(transfer_violations) ] >>,
          internalized_violations |-> internalized_violations,
          transfer_violations |-> transfer_violations,
          inferred_pairs |-> Cardinality(inferred_pairs_of(cost_rows)) ]

\* ------------------------------------------------------------ input sets
CostRow(family, instance, cost_type, stakeholder, magnitude, unit, grade, mode, dm, target) ==
    [ mechanism_family |-> family, mechanism_instance |-> instance,
      cost_type |-> cost_type, stakeholder |-> stakeholder,
      magnitude |-> magnitude, unit |-> unit, evidence_grade |-> grade,
      bearing_mode |-> mode, decision_maker |-> dm, transfer_target |-> target ]

Micro == "MicroarchitecturalPerformanceCost"
Labor == "EngineeringLaborCost"

\* rows that exercise the microperformance aggregator
PerfCostRows ==
    { CostRow(f, "m1", Micro, "A", mg[1], "percent_runtime", mg[2], "Internalized", "A", "") :
        f \in {"F1", "F2"},
        mg \in { << "10", "E1" >>, << "11", "E2" >>, << "11", "E1" >> } }
    \cup
    { CostRow("F1", "m1", Labor, "A", "20", "percent_runtime", "E1", "Internalized", "A", ""),
      CostRow("F1", "m1", Micro, "A", "20", "usd", "E1", "Internalized", "A", ""),
      CostRow("", "m1", Micro, "A", "5", "percent_runtime", "E3", "Internalized", "A", ""),
      CostRow(" F1", "m1", Micro, "A", "n/a", "mean_percent_runtime_overhead", "E3",
              "Internalized", "A", ""),
      CostRow("F2", "m1", " MicroarchitecturalPerformanceCost", "A", "4", "percent_runtime",
              "E2", "Internalized", "A", "") }

\* rows that exercise the VOI scorer
VoiCostRows ==
    { CostRow("F1", "m1", Micro, "A", "10", "percent_runtime", "E1", "Internalized", "A", ""),
      CostRow("F1", "m1", Micro, "A", "10", "percent_runtime", "E2", "Internalized", "A", ""),
      CostRow("F2", "m1", Micro, "A", "10", "percent_runtime", "E2", "Internalized", "A", ""),
      CostRow("F2", "m1", Labor, "A", "10", "hours", "E1", "Transferred", "A", "B"),
      CostRow("", "m1", Micro, "A", "10", "percent_runtime", "E2", "Transferred", "A", "B"),
      CostRow("F1", "m1", " ", "A", "10", "percent_runtime", "E3", "Internalized", "A", ""),
      CostRow(" F1", "m1", Micro, "A", "10", "percent_runtime", "E3", "Externalized", "A", "B") }

\* rows that exercise the consistency rules
ShaclCostRows ==
    { CostRow("F1", "m1", Micro, ds[2], "10", "percent_runtime", "E1", "Internalized", ds[1], "") :
        ds \in { << "A", "A" >>, << "A", "B" >>, << "", "B" >>, << "A", "" >>, << " A", "A" >> } }
    \cup
    { CostRow("F1", "m1", Micro, "B", "10", "percent_runtime", "E1", mt[1], "A", mt[2]) :
        mt \in { << "Transferred", "A" >>, << "Transferred", "B" >>,
                 << "Externalized", " " >>, << "", "" >> } }
    \cup
    { CostRow("F1", "m1", Micro, "B", "10", "percent_runtime", "E1", " Internalized", "A", ""),
      CostRow("F1", "", Micro, "A", "10", "percent_runtime", "E1", "Internalized", "A", "") }

\* rows that exercise the objective ranker
ObjectiveCostRows ==
    { CostRow("F1", "m1", Micro, "A", "10", "percent_runtime", "E1", "Internalized", "A", ""),
      CostRow("F2", "m1", Micro, "A", "5", "percent_runtime", "E1", "Transferred", "A", "B"),
      CostRow("F2", "m1", Labor, "A", "4", "hours", "E2", "Internalized", "A", ""),
      CostRow("F3", "m1", "", "A", "20", "usd", "E1", "Internalized", "A", "") }

IncidentRow(family, loss) == [ linked_family |-> family, loss_magnitude |-> loss ]

VoiIncidentRows ==
    { IncidentRow("F1", "5"), IncidentRow("F2 ", "10"), IncidentRow("", "20") }

ObjectiveIncidentRows ==
    { IncidentRow("F1", "5"), IncidentRow("F2 ", "10"), IncidentRow("F1", "-5") }

ObjectiveRow(id, baseline, perf, labor, ops, transfer, incident) ==
    [ objective_id |-> id, objective_label |-> "label", baseline_family |-> baseline,
      w_perf |-> perf, w_labor |-> labor, w_ops |-> ops, w_compliance |-> "0",
      w_opportunity |-> "0", w_transfer_externalized |-> transfer,
      w_incident_loss |-> incident ]

ObjIncidentOnly == ObjectiveRow("O1", "F1", "0", "0", "0", "0", "1")
ObjIncidentOnlyNegative == ObjectiveRow("O2", "F1", "0", "0", "0", "0", "-1")
ObjMixed == ObjectiveRow("O3", "F2", "1", "0.5", "0", "2", "1")
ObjBlankId == ObjectiveRow(" ", "F1", "1", "0.5", "0", "2", "1")
ObjBlankWeight == ObjectiveRow("O5", "F1", "1", "0.5", "", "2", "1")

\* the objective datasets a run may be given
ObjectiveDatasets ==
    { <<>>, << ObjIncidentOnly >>, << ObjMixed >>, << ObjBlankWeight >>,
      << ObjIncidentOnly, ObjMixed >>, << ObjBlankId, ObjIncidentOnlyNegative >> }

SeqsUpTo(S, n) == UNION { [ 1..k -> S ] : k \in 0..n }

\* ------------------------------------------------------------------ main
VARIABLES pc, shacl_shapes_exists, error, written,
          cost_rows, incident_rows, objective_rows,
          objective_out, cq3,
          microperf, cq5_pass, sensitivity_out,
          voi_out, cq6_pass,
          shacl_out, cq7, cq7_pass,
          cq_out

vars == << pc, shacl_shapes_exists, error, written,
           cost_rows, incident_rows, objective_rows,
           objective_out, cq3, microperf, cq5_pass, sensitivity_out,
           voi_out, cq6_pass, shacl_out, cq7, cq7_pass, cq_out >>

Artifacts == {"cq_out", "voi_out", "sensitivity_out", "objective_out", "shacl_out"}

Init ==
    /\ pc = "check_shapes"
    /\ shacl_shapes_exists \in BOOLEAN
    /\ error = "none"
    /\ written = {}
    /\ cost_rows = <<>>
    /\ incident_rows = <<>>
    /\ objective_rows = <<>>
    /\ objective_out = <<>>
    /\ cq3 = [ valid |-> 0, total |-> 0, pass |-> FALSE ]
    /\ microperf = [ baseline |-> [ ranking |-> <<>>, means |-> <<>> ],
                     minus |-> [ ranking |-> <<>>, means |-> <<>> ],
                     plus |-> [ ranking |-> <<>>, means |-> <<>> ] ]
    /\ cq5_pass = FALSE
    /\ sensitivity_out = <<>>
    /\ voi_out = <<>>
    /\ cq6_pass = FALSE
    /\ shacl_out = <<>>
    /\ cq7 = [ internalized_v |-> 0, transfer_v |-> 0, inferred_pairs |-> 0 ]
    /\ cq7_pass = FALSE
    /\ cq_out = <<>>

\* lines 300-301
CheckShapesIgnored ==
    /\ pc = "check_shapes"
    /\ pc' = "read"
    /\ UNCHANGED << shacl_shapes_exists, error, written, cost_rows, incident_rows,
                    objective_rows, objective_out, cq3, microperf, cq5_pass,
                    sensitivity_out, voi_out, cq6_pass, shacl_out, cq7, cq7_pass, cq_out >>

CheckShapes ==
    /\ pc = "check_shapes"
    /\ IF ~ shacl_shapes_exists
       THEN pc' = "aborted" /\ error' = "FileNotFoundError"
       ELSE pc' = "read" /\ error' = error
    /\ UNCHANGED << shacl_shapes_exists, written, cost_rows, incident_rows,
                    objective_rows, objective_out, cq3, microperf, cq5_pass,
                    sensitivity_out, voi_out, cq6_pass, shacl_out, cq7, cq7_pass, cq_out >>

\* lines 303-305
LoadRows(c, i, o) ==
    /\ cost_rows' = c
    /\ incident_rows' = i
    /\ objective_rows' = o

\* the datasets a run may be given: each group varies the fields one
\* component reads
ReadInputs ==
    /\ pc = "read"
    /\ \/ \E c \in SeqsUpTo(PerfCostRows, MaxCostRows) : LoadRows(c, <<>>, <<>>)
       \/ \E c \in SeqsUpTo(ShaclCostRows, MaxCostRows) : LoadRows(c, <<>>, <<>>)
       \/ \E c \in SeqsUpTo(VoiCostRows, MaxCostRows),
             i \in SeqsUpTo(VoiIncidentRows, MaxIncidentRows) : LoadRows(c, i, <<>>)
       \/ \E c \in SeqsUpTo(ObjectiveCostRows, MaxCostRows),
             i \in SeqsUpTo(ObjectiveIncidentRows, MaxIncidentRows),
             o \in ObjectiveDatasets : LoadRows(c, i, o)
    /\ pc' = "objective"
    /\ UNCHANGED << shacl_shapes_exists, error, written, objective_out, cq3, microperf,
                    cq5_pass, sensitivity_out, voi_out, cq6_pass, shacl_out, cq7,
                    cq7_pass, cq_out >>

\* lines 327-343
WriteObjective ==
    /\ pc = "objective"
    /\ LET got == generate_objective_comparisons(cost_rows, incident_rows, objective_rows)
       IN  /\ objective_out' = got.objective_comparisons
           /\ cq3' = [ valid |-> got.objective_valid,
                       total |-> got.objective_total,
                       pass |-> got.objective_total > 0
                                /\ got.objective_valid = got.objective_total ]
    /\ written' = written \cup {"objective_out"}
    /\ pc' = "sensitivity"
    /\ UNCHANGED << shacl_shapes_exists, error, cost_rows, incident_rows, objective_rows,
                    microperf, cq5_pass, sensitivity_out, voi_out, cq6_pass, shacl_out,
                    cq7, cq7_pass, cq_out >>

\* line 367
cq5_condition_identical_only(baseline_rank, minus_rank, plus_rank) ==
    baseline_rank = minus_rank /\ minus_rank = plus_rank

cq5_condition(baseline_rank, minus_rank, plus_rank) ==
    baseline_rank # <<>> /\ baseline_rank = minus_rank /\ minus_rank = plus_rank

\* lines 369-384
sensitivity_rows_of(scenario, means) ==
    LET ordered == sorted_items(means)
    IN  [ rank \in 1..Len(ordered) |->
            [ scenario |-> scenario, rank |-> rank,
              mechanism_family |-> ordered[rank][1],
              mean_microperf_percent_runtime |-> f_format(ordered[rank][2], 10000) ] ]

\* lines 364-389
WriteSensitivity ==
    /\ pc = "sensitivity"
    /\ LET baseline == ranking_for_microperf(cost_rows, Float(10, 10))
           minus == ranking_for_microperf(cost_rows, Float(8, 10))
           plus == ranking_for_microperf(cost_rows, Float(12, 10))
       IN  /\ microperf' = [ baseline |-> baseline, minus |-> minus, plus |-> plus ]
           /\ cq5_pass' = cq5_condition(baseline.ranking, minus.ranking, plus.ranking)
           /\ sensitivity_out' = sensitivity_rows_of("baseline", baseline.means)
                                   \o sensitivity_rows_of("minus20_e2e3", minus.means)
                                   \o sensitivity_rows_of("plus20_e2e3", plus.means)
    /\ written' = written \cup {"sensitivity_out"}
    /\ pc' = "voi"
    /\ UNCHANGED << shacl_shapes_exists, error, cost_rows, incident_rows, objective_rows,
                    objective_out, cq3, voi_out, cq6_pass, shacl_out, cq7, cq7_pass,
                    cq_out >>

\* lines 391-406
WriteVoi ==
    /\ pc = "voi"
    /\ voi_out' = generate_voi_rows(cost_rows, incident_rows)
    /\ cq6_pass' = (Len(voi_out') > 0)
    /\ written' = written \cup {"voi_out"}
    /\ pc' = "shacl"
    /\ UNCHANGED << shacl_shapes_exists, error, cost_rows, incident_rows, objective_rows,
                    objective_out, cq3, microperf, cq5_pass, sensitivity_out, shacl_out,
                    cq7, cq7_pass, cq_out >>

\* line 414
cq7_condition_pairs_ignored(internalized_v, transfer_v, inferred_pairs) ==
    internalized_v = 0 /\ transfer_v = 0

cq7_condition(internalized_v, transfer_v, inferred_pairs) ==
    internalized_v = 0 /\ transfer_v = 0 /\ inferred_pairs > 0

\* lines 408-414
WriteShacl ==
    /\ pc = "shacl"
    /\ LET got == generate_shacl_equivalent_results(cost_rows)
       IN  /\ shacl_out' = got.rows
           /\ cq7' = [ internalized_v |-> got.internalized_violations,
                       transfer_v |-> got.transfer_violations,
                       inferred_pairs |-> got.inferred_pairs ]
           /\ cq7_pass' = cq7_condition(got.internalized_violations,
                                        got.transfer_violations, got.inferred_pairs)
    /\ written' = written \cup {"shacl_out"}
    /\ pc' = "cq_report"
    /\ UNCHANGED << shacl_shapes_exists, error, cost_rows, incident_rows, objective_rows,
                    objective_out, cq3, microperf, cq5_pass, sensitivity_out, voi_out,
                    cq6_pass, cq_out >>

cq_status(pass) == IF pass THEN "pass" ELSE "partial"

\* lines 321-325
cq2_condition(rows) ==
    LET transfer_rows == { i \in 1..Len(rows) : strip(rows[i].bearing_mode) \in TRANSFER_MODES }
        cq2_modes_ok == Cardinality({ i \in 1..Len(rows) : strip(rows[i].bearing_mode) # "" })
        cq2_target_ok == Cardinality({ i \in transfer_rows : strip(rows[i].transfer_target) # "" })
    IN  /\ cq2_modes_ok = Len(rows)
        /\ cq2_target_ok = Cardinality(transfer_rows)
        /\ Len(rows) > 0

\* lines 427-499; the rows of CQ1, CQ4 and CQ8 depend only on the presence
\* of provenance and foregone-alternative columns the model does not carry
\* and are left out
WriteCqReport ==
    /\ pc = "cq_report"
    /\ cq_out' = << [ cq_id |-> "CQ2", status |-> cq_status(cq2_condition(cost_rows)) ],
                    [ cq_id |-> "CQ3", status |-> cq_status(cq3.pass) ],
                    [ cq_id |-> "CQ5", status |-> cq_status(cq5_pass) ],
                    [ cq_id |-> "CQ6", status |-> cq_status(cq6_pass) ],
                    [ cq_id |-> "CQ7", status |-> cq_status(cq7_pass) ] >>
    /\ written' = written \cup {"cq_out"}
    /\ pc' = "done"
    /\ UNCHANGED << shacl_shapes_exists, error, cost_rows, incident_rows, objective_rows,
                    objective_out, cq3, microperf, cq5_pass, sensitivity_out, voi_out,
                    cq6_pass, shacl_out, cq7, cq7_pass >>

Next ==
    \/ CheckShapes
    \/ ReadInputs
    \/ WriteObjective
    \/ WriteSensitivity
    \/ WriteVoi
    \/ WriteShacl
    \/ WriteCqReport

Spec == Init /\ [][Next]_vars

TypeOK ==
    /\ pc \in {"check_shapes", "aborted", "read", "objective", "sensitivity", "voi",
               "shacl", "cq_report", "done"}
    /\ written \subseteq Artifacts

\* ================================================================ claims
CostIdx == 1..Len(cost_rows)
IncidentIdx == 1..Len(incident_rows)
ObjectiveIdx == 1..Len(objective_rows)
VoiIdx == 1..Len(voi_out)

CqStatus(id) == cq_out[CHOOSE k \in 1..Len(cq_out) : cq_out[k].cq_id = id].status

FamilyOf(i) == strip(cost_rows[i].mechanism_family)
CellOf(i) == << strip(cost_rows[i].mechanism_family), strip(cost_rows[i].cost_type) >>

\* lexicographic order on (family, cost_type) pairs
CellLess(a, b) == str_lt(a[1], b[1]) \/ (a[1] = b[1] /\ str_lt(a[2], b[2]))

\* ---------------------------------------------------------------- C1
\* C1: when the rule-definitions (SHACL shapes) file is absent the run stops
\* at the check with FileNotFoundError: no dataset is read and none of the
\* five output artifacts is ever written.
C1_AbortBeforeAnyOutput ==
    ~ shacl_shapes_exists =>
        /\ pc \in {"check_shapes", "aborted"}
        /\ written = {}
        /\ cost_rows = <<>> /\ incident_rows = <<>> /\ objective_rows = <<>>

C1_Witness == ~ shacl_shapes_exists /\ pc = "aborted" /\ error = "FileNotFoundError"

\* ---------------------------------------------------------------- C2
VoiCells == { CellOf(i) : i \in { j \in CostIdx : CellOf(j)[1] # "" /\ CellOf(j)[2] # "" } }
CellRows(cell) == { i \in CostIdx : CellOf(i) = cell }
CellE2(cell) == Cardinality({ i \in CellRows(cell) : cost_rows[i].evidence_grade = "E2" })
CellE3(cell) == Cardinality({ i \in CellRows(cell) : cost_rows[i].evidence_grade = "E3" })
CellTransfer(cell) ==
    Cardinality({ i \in CellRows(cell) :
                    cost_rows[i].bearing_mode \in {"Transferred", "Externalized"} })
IncidentLinks(family) ==
    Cardinality({ i \in IncidentIdx : strip(incident_rows[i].linked_family) = family })
VoiCellOfRow(k) == << voi_out[k].mechanism_family, voi_out[k].cost_type >>

EndToEndInput ==
    /\ Len(cost_rows) = 1
    /\ cost_rows[1].mechanism_family = "F1"
    /\ cost_rows[1].cost_type = "MicroarchitecturalPerformanceCost"
    /\ cost_rows[1].unit = "percent_runtime"
    /\ cost_rows[1].magnitude = "10"
    /\ cost_rows[1].evidence_grade = "E1"
    /\ cost_rows[1].bearing_mode = "Internalized"
    /\ Len(incident_rows) = 1
    /\ incident_rows[1].linked_family = "F1"
    /\ incident_rows[1].loss_magnitude = "5"

\* C2: the VOI output has exactly one row per distinct (family, cost_type)
\* cell with both fields non-empty and no other row; each row carries the
\* cell's E2, E3 and transfer counts and the family's incident count, and
\* its voi_score (in hundredths) is 100*e2 + 200*e3 + 120*t + 80*i; the
\* end-to-end example yields the single row (F1, Micro..., 0, 0, 0, 1, 0.80, 1).
C2_VoiRowPerCellWithScore ==
    pc = "done" =>
        /\ \A cell \in VoiCells :
              Cardinality({ k \in VoiIdx : VoiCellOfRow(k) = cell }) = 1
        /\ \A k \in VoiIdx :
              /\ VoiCellOfRow(k) \in VoiCells
              /\ voi_out[k].e2_rows = CellE2(VoiCellOfRow(k))
              /\ voi_out[k].e3_rows = CellE3(VoiCellOfRow(k))
              /\ voi_out[k].transfer_externalized_rows = CellTransfer(VoiCellOfRow(k))
              /\ voi_out[k].incident_link_rows = IncidentLinks(voi_out[k].mechanism_family)
              /\ voi_out[k].voi_score =
                    100 * CellE2(VoiCellOfRow(k)) + 200 * CellE3(VoiCellOfRow(k))
                      + 120 * CellTransfer(VoiCellOfRow(k))
                      + 80 * IncidentLinks(voi_out[k].mechanism_family)
        /\ EndToEndInput =>
              voi_out = << [ priority_rank |-> 1, mechanism_family |-> "F1",
                             cost_type |-> "MicroarchitecturalPerformanceCost",
                             e2_rows |-> 0, e3_rows |-> 0,
                             transfer_externalized_rows |-> 0,
                             incident_link_rows |-> 1, voi_score |-> 80 ] >>

C2_Witness ==
    /\ pc = "done"
    /\ Len(cost_rows) = 2
    /\ Len(voi_out) = 2
    /\ \E k \in VoiIdx : voi_out[k].incident_link_rows = 1 /\ voi_out[k].e3_rows = 1
    /\ \E k \in VoiIdx : voi_out[k].transfer_externalized_rows = 1

\* ---------------------------------------------------------------- C3
\* C3: with N scored cells, every voi_score is >= 0, the priority_rank of
\* the k-th row is k (so the ranks are 1..N, each once), and rows are in
\* descending score order with equal scores in ascending (family,
\* cost_type) order.
C3_VoiRanksTotalOrder ==
    pc = "done" =>
        /\ Len(voi_out) = Cardinality(VoiCells)
        /\ \A k \in VoiIdx : voi_out[k].voi_score >= 0 /\ voi_out[k].priority_rank = k
        /\ { voi_out[k].priority_rank : k \in VoiIdx } = 1..Cardinality(VoiCells)
        /\ \A k, l \in VoiIdx :
              k < l =>
                \/ voi_out[k].voi_score > voi_out[l].voi_score
                \/ /\ voi_out[k].voi_score = voi_out[l].voi_score
                   /\ CellLess(VoiCellOfRow(k), VoiCellOfRow(l))

C3_Witness ==
    /\ pc = "done"
    /\ Len(voi_out) = 2
    /\ voi_out[1].voi_score = voi_out[2].voi_score
    /\ voi_out[1].voi_score > 0
    /\ VoiCellOfRow(1) # CellOf(1)

\* ---------------------------------------------------------------- C4
ScoredFamilies == { FamilyOf(i) : i \in CostIdx } \ {""}
ObjectiveOutIdx == 1..Len(objective_out)
RowsOfObjective(j) ==
    { k \in ObjectiveOutIdx :
        objective_out[k].objective_id = strip(objective_rows[j].objective_id) }
ScoreIn(scores, family) == dict_get(scores, family, f_zero)
ScoreKeyLess(scores, f, g) ==
    \/ f_lt(ScoreIn(scores, f), ScoreIn(scores, g))
    \/ ScoreIn(scores, f) = ScoreIn(scores, g) /\ str_lt(f, g)
BaselineOf(j) == strip(objective_rows[j].baseline_family)

\* the rows of objective j are one per scored family, with the delta and
\* the rank the scores determine
RowsMatchScores(j, scores) ==
    /\ \A f \in ScoredFamilies :
          Cardinality({ k \in RowsOfObjective(j) :
                          objective_out[k].mechanism_family = f }) = 1
    /\ { objective_out[k].rank : k \in RowsOfObjective(j) } = 1..Cardinality(ScoredFamilies)
    /\ \A k \in RowsOfObjective(j) :
          LET f == objective_out[k].mechanism_family
          IN  /\ f \in ScoredFamilies
              /\ objective_out[k].delta_vs_baseline =
                    f_format(f_sub(ScoreIn(scores, f), ScoreIn(scores, BaselineOf(j))), 10000)
              /\ f = BaselineOf(j) => objective_out[k].delta_vs_baseline = 0
              /\ objective_out[k].rank =
                    1 + Cardinality({ g \in ScoredFamilies : ScoreKeyLess(scores, g, f) })

\* C4: an objective has output rows only if its baseline family is scored
\* and at least two families are scored; an objective with rows has exactly
\* one row per scored family, with delta_vs_baseline = score - baseline
\* score (0 on the baseline's row) and rank = 1-based position in ascending
\* (score, family) order, the ranks being 1..K; the valid total counts
\* exactly the objectives with rows, and every complete objective meeting
\* the two conditions has rows.
C4_ObjectiveRowsOnlyForValid ==
    pc = "done" =>
        /\ \A k \in ObjectiveOutIdx : \E j \in ObjectiveIdx : k \in RowsOfObjective(j)
        /\ cq3.valid = Cardinality({ j \in ObjectiveIdx : RowsOfObjective(j) # {} })
        /\ cq3.total = Len(objective_rows)
        /\ \A j \in ObjectiveIdx :
              /\ ( /\ objective_complete(objective_rows[j])
                   /\ BaselineOf(j) \in ScoredFamilies
                   /\ Cardinality(ScoredFamilies) >= 2 ) => RowsOfObjective(j) # {}
              /\ RowsOfObjective(j) # {} =>
                    /\ BaselineOf(j) \in ScoredFamilies
                    /\ Cardinality(ScoredFamilies) >= 2
                    /\ \A scores \in { family_scores(cost_rows, incident_rows,
                                                      objective_rows[j]) } :
                          RowsMatchScores(j, scores)

C4_Witness ==
    /\ pc = "done"
    /\ cq3.valid = 1
    /\ Len(objective_out) = 2
    /\ \E k \in ObjectiveOutIdx : objective_out[k].delta_vs_baseline < 0
    /\ \E k \in ObjectiveOutIdx : objective_out[k].delta_vs_baseline = 0

\* ---------------------------------------------------------------- C5
LinkedIncidents == { i \in IncidentIdx : strip(incident_rows[i].linked_family) # "" }
LossOf(i) == f_abs(as_float(incident_rows[i].loss_magnitude))
MaxLoss ==
    IF \A i \in LinkedIncidents : f_le(LossOf(i), f_zero)
    THEN f_one
    ELSE LossOf(CHOOSE i \in LinkedIncidents :
                  \A h \in LinkedIncidents : f_le(LossOf(h), LossOf(i)))

\* mean over the family's incidents of |loss| / global maximum |loss|
\* (0 for a family with no linked incident)
MeanNormalizedLoss(family) ==
    LET Linked(r) == strip(r.linked_family) = family
        mine == SelectSeq(incident_rows, Linked)
        losses == [ i \in 1..Len(mine) |-> f_abs(as_float(mine[i].loss_magnitude)) ]
    IN  IF mine = <<>> THEN f_zero
        ELSE f_div(f_div(f_sum(losses), f_int(Len(mine))), MaxLoss)

LossKeyLess(f, g) ==
    \/ f_lt(MeanNormalizedLoss(f), MeanNormalizedLoss(g))
    \/ MeanNormalizedLoss(f) = MeanNormalizedLoss(g) /\ str_lt(f, g)

IncidentOnly(objective) ==
    /\ as_float(objective.w_perf) = f_zero
    /\ as_float(objective.w_labor) = f_zero
    /\ as_float(objective.w_ops) = f_zero
    /\ as_float(objective.w_compliance) = f_zero
    /\ as_float(objective.w_opportunity) = f_zero
    /\ as_float(objective.w_transfer_externalized) = f_zero
    /\ as_float(objective.w_incident_loss) # f_zero

RankingFollowsLoss(j) ==
    \A k, l \in RowsOfObjective(j) :
        objective_out[k].rank < objective_out[l].rank
          <=> LossKeyLess(objective_out[k].mechanism_family, objective_out[l].mechanism_family)

R1Rows ==
    { i \in CostIdx :
        /\ strip(cost_rows[i].bearing_mode) = "Internalized"
        /\ strip(cost_rows[i].decision_maker) # ""
        /\ strip(cost_rows[i].stakeholder) # ""
        /\ strip(cost_rows[i].decision_maker) # strip(cost_rows[i].stakeholder) }
R2Rows ==
    { i \in CostIdx :
        /\ strip(cost_rows[i].bearing_mode) \in {"Transferred", "Externalized"}
        /\ \/ strip(cost_rows[i].transfer_target) = ""
           \/ strip(cost_rows[i].transfer_target) = strip(cost_rows[i].decision_maker) }

\* C6: the R1 count is the number of Internalized rows whose decision_maker
\* and stakeholder are both non-empty and differ, the R2 count the number
\* of Transferred/Externalized rows whose transfer_target is empty or equals
\* decision_maker; each rule's status is pass iff its count is zero.
C6_RuleViolationCounts ==
    pc = "done" =>
        /\ Len(shacl_out) = 2
        /\ shacl_out[1].rule_id = "CQ7-R1" /\ shacl_out[2].rule_id = "CQ7-R2"
        /\ shacl_out[1].violations = Cardinality(R1Rows)
        /\ shacl_out[2].violations = Cardinality(R2Rows)
        /\ cq7.internalized_v = Cardinality(R1Rows)
        /\ cq7.transfer_v = Cardinality(R2Rows)
        /\ \A r \in 1..2 : shacl_out[r].status = "pass" <=> shacl_out[r].violations = 0
        /\ \A r \in 1..2 : shacl_out[r].checked_rows = Len(cost_rows)

C6_Witness ==
    /\ pc = "done"
    /\ Len(cost_rows) = 2
    /\ shacl_out[1].violations = 1 /\ shacl_out[1].status = "fail"
    /\ shacl_out[2].violations = 1 /\ shacl_out[2].status = "fail"
    /\ \E i \in CostIdx : i \notin R1Rows /\ strip(cost_rows[i].stakeholder) = "B"

\* ---------------------------------------------------------------- C7
OrderingsIdentical ==
    /\ ranking_for_microperf(cost_rows, Float(8, 10)).ranking
         = ranking_for_microperf(cost_rows, Float(10, 10)).ranking
    /\ ranking_for_microperf(cost_rows, Float(12, 10)).ranking
         = ranking_for_microperf(cost_rows, Float(10, 10)).ranking

\* C7 as stated: CQ5 is pass iff the orderings at 0.8, 1.0 and 1.2 are
\* identical, for every cost dataset.
C7_AsStated_PassIffIdentical ==
    pc = "done" => (CqStatus("CQ5") = "pass" <=> OrderingsIdentical)

\* C7 amended: CQ5 is pass iff the three orderings are identical AND
\* non-empty; otherwise (also with no qualifying row) it is partial.
C7_PassIffIdenticalAndNonEmpty ==
    pc = "done" =>
        /\ CqStatus("CQ5") \in {"pass", "partial"}
        /\ CqStatus("CQ5") = "pass"
             <=> ( /\ OrderingsIdentical
                   /\ ranking_for_microperf(cost_rows, Float(10, 10)).ranking # <<>> )

C7_Witness ==
    /\ pc = "done"
    /\ CqStatus("CQ5") = "partial"
    /\ Len(microperf.baseline.ranking) = 2
    /\ microperf.baseline.ranking # microperf.minus.ranking

\* ---------------------------------------------------------------- C8
AllMicroperfRowsE1 ==
    \A i \in CostIdx :
        cost_rows[i].cost_type = "MicroarchitecturalPerformanceCost"
          => cost_rows[i].evidence_grade = "E1"

OtherMultipliers == { Float(0, 1), Float(1, 2), Float(2, 1), Float(-1, 1) }

\* C8: if every MicroarchitecturalPerformanceCost row is graded E1, the
\* ranking and the per-family means are the same at every multiplier (0.8,
\* 1.0, 1.2 of the run, and others).
C8_E1OnlyIsMultiplierInvariant ==
    (pc = "done" /\ AllMicroperfRowsE1) =>
        /\ microperf.minus = microperf.baseline
        /\ microperf.plus = microperf.baseline
        /\ \A m \in OtherMultipliers :
              ranking_for_microperf(cost_rows, m) = microperf.baseline

C8_Witness ==
    /\ pc = "done"
    /\ AllMicroperfRowsE1
    /\ Len(microperf.baseline.ranking) = 2
    /\ microperf.baseline.means[1][2] # microperf.baseline.means[2][2]

\* ---------------------------------------------------------------- C9
PercentRuntimeRows(family) ==
    LET Mine(r) == strip(r.mechanism_family) = family /\ has_percent_runtime(r.unit)
    IN  SelectSeq(cost_rows, Mine)

MicroPercentRuntimeRows(family) ==
    LET Mine(r) == /\ strip(r.mechanism_family) = family
                   /\ has_percent_runtime(r.unit)
                   /\ r.cost_type = "MicroarchitecturalPerformanceCost"
    IN  SelectSeq(cost_rows, Mine)

RawMean(rows) ==
    f_div(f_sum([ i \in 1..Len(rows) |-> as_float(rows[i].magnitude) ]), f_int(Len(rows)))

\* C9 as stated: for each family, the mean at multiplier 1.0 equals the
\* arithmetic mean of the raw magnitudes of ALL its cost rows whose unit
\* contains percent_runtime.
C9_AsStated_AllPercentRuntimeRows ==
    pc = "done" =>
        \A f \in ScoredFamilies :
            PercentRuntimeRows(f) # <<>> =>
                /\ f \in dict_keys(microperf.baseline.means)
                /\ dict_get(microperf.baseline.means, f, f_zero)
                     = RawMean(PercentRuntimeRows(f))

\* C9 amended: for each family, the mean at multiplier 1.0 equals the
\* arithmetic mean of the raw magnitudes of its MicroarchitecturalPerformanceCost
\* rows whose unit contains percent_runtime, and only families with such a
\* row get a mean.
C9_BaselineMeanOfMicroperfRows ==
    pc = "done" =>
        /\ \A f \in ScoredFamilies :
              MicroPercentRuntimeRows(f) # <<>> =>
                  /\ f \in dict_keys(microperf.baseline.means)
                  /\ dict_get(microperf.baseline.means, f, f_zero)
                       = RawMean(MicroPercentRuntimeRows(f))
        /\ \A f \in dict_keys(microperf.baseline.means) :
              f \in ScoredFamilies /\ MicroPercentRuntimeRows(f) # <<>>

C9_Witness ==
    /\ pc = "done"
    /\ \E f \in ScoredFamilies :
          /\ Len(MicroPercentRuntimeRows(f)) = 2
          /\ MicroPercentRuntimeRows(f)[1].evidence_grade = "E1"
          /\ MicroPercentRuntimeRows(f)[2].evidence_grade = "E2"
          /\ MicroPercentRuntimeRows(f)[1].magnitude # MicroPercentRuntimeRows(f)[2].magnitude

\* --------------------------------------------------------------- C10
InferredPairs ==
    { << strip(cost_rows[i].mechanism_instance), strip(cost_rows[i].stakeholder) >> :
        i \in { j \in CostIdx : /\ strip(cost_rows[j].mechanism_instance) # ""
                                /\ strip(cost_rows[j].stakeholder) # "" } }

\* C10 as stated: CQ7 is pass whenever R1 and R2 both have zero
\* violations, whatever the number of distinct (mechanism_instance,
\* stakeholder) pairs.
C10_AsStated_PairCountNonGating ==
    pc = "done" =>
        ((Cardinality(R1Rows) = 0 /\ Cardinality(R2Rows) = 0) => CqStatus("CQ7") = "pass")

\* C10 amended: CQ7 is pass iff R1 and R2 both have zero violations AND at
\* least one (mechanism_instance, stakeholder) pair is inferred; the pair
\* count gates the status only through being non-zero.
C10_PassIffNoViolationAndSomePair ==
    pc = "done" =>
        /\ cq7.inferred_pairs = Cardinality(InferredPairs)
        /\ CqStatus("CQ7") \in {"pass", "partial"}
        /\ CqStatus("CQ7") = "pass"
             <=> ( /\ Cardinality(R1Rows) = 0
                   /\ Cardinality(R2Rows) = 0
                   /\ Cardinality(InferredPairs) > 0 )

C10_Witness ==
    /\ pc = "done"
    /\ Len(cost_rows) = 2
    /\ Cardinality(R1Rows) = 0 /\ Cardinality(R2Rows) = 0
    /\ Cardinality(InferredPairs) = 2
    /\ CqStatus("CQ7") = "pass"

\* ---------------------------------------------------------------------
\* C11: rows with an empty mechanism_family or cost_type
\* ---------------------------------------------------------------------

\* a cost row whose mechanism_family and cost_type are both non-empty
\* after trimming
CompleteCostRow(row) ==
    strip(row.mechanism_family) # "" /\ strip(row.cost_type) # ""

\* the cost dataset with every incomplete row removed
CompleteCostRows == SelectSeq(cost_rows, CompleteCostRow)

HasIncompleteCostRow == \E i \in CostIdx : ~CompleteCostRow(cost_rows[i])

AggregatorIgnoresIncompleteRows ==
    /\ microperf.baseline = ranking_for_microperf(CompleteCostRows, Float(10, 10))
    /\ microperf.minus = ranking_for_microperf(CompleteCostRows, Float(8, 10))
    /\ microperf.plus = ranking_for_microperf(CompleteCostRows, Float(12, 10))

VoiIgnoresIncompleteRows ==
    voi_out = generate_voi_rows(CompleteCostRows, incident_rows)

PerTypeMaximumIgnoresIncompleteRows ==
    max_abs_by_cost_type(cost_rows) = max_abs_by_cost_type(CompleteCostRows)

ObjectiveRankerIgnoresIncompleteRows ==
    \A got \in { generate_objective_comparisons(CompleteCostRows, incident_rows,
                                                 objective_rows) } :
        /\ objective_out = got.objective_comparisons
        /\ cq3.valid = got.objective_valid

\* C11 as stated: a cost row whose mechanism_family or cost_type is empty
\* after trimming enters no aggregation or scoring: the microperformance
\* means, the VOI rows, the per-type maxima and the objective comparison
\* are the same as if the row had been removed from the dataset, and the
\* run raises no error.
C11_AsStated_IncompleteRowsNeverScored ==
    pc = "done" =>
        /\ error = "none"
        /\ AggregatorIgnoresIncompleteRows
        /\ VoiIgnoresIncompleteRows
        /\ PerTypeMaximumIgnoresIncompleteRows
        /\ ObjectiveRankerIgnoresIncompleteRows

====
